---- MODULE Spec2Model ----
(***************************************************************************)
(* A model of Dashboard.py: the CSV loader (load_data), the currency       *)
(* formatter (format_number), the derived views (get_stock_highs,          *)
(* get_latest_stock_data), the stock card (create_stock_card) and one run  *)
(* of the page script (main).                                              *)
(*                                                                         *)
(* Text is a sequence of one-character strings.  A character outside ASCII *)
(* is written by its code point ("U+20B9").  A pandas value is a record    *)
(* with a kind k: "nan" (NaN/None), "nat" (NaT), "str", "num", "date";     *)
(* a table has kind "frame" and an exception that was raised "raised".      *)
(* A number is an exact decimal: sign, integer part, fractional digits.    *)
(***************************************************************************)
EXTENDS Integers, Sequences, FiniteSets, TLC

VARIABLES
    pc,     \* where the script is: "start", "loaded", and the call or run done
    file,   \* the CSV file
    cache,  \* what st.cache_data holds for load_data(file)
    data,   \* the table load_data returned to this run
    arg,    \* the argument of the call, or the widget values of the run
    out     \* the result of the call, or the page the run rendered

vars == <<pc, file, cache, data, arg, out>>

(***************************** bounds ***************************************)
\* longest text of a probed CSV cell
MaxCellLen == 3
\* most rows of a CSV file given to get_latest_stock_data and to main
MaxRows == 3
\* most rows of a CSV file given to get_stock_highs
MaxHighRows == 3

(***************************** characters ***********************************)
Digits == {"0", "1", "2", "3", "4", "5", "6", "7", "8", "9"}

\* the rupee sign
Rupee == "U+20B9"

\* the three code points of the glyph literal that the source strips and prints
SrcGlyph == <<"U+201A", "U+00C7", "U+03C0">>

Whitespace == {" ", "\t", "\n"}

DigitVal(c) == IF c = "0" THEN 0 ELSE
               IF c = "1" THEN 1 ELSE
               IF c = "2" THEN 2 ELSE
               IF c = "3" THEN 3 ELSE
               IF c = "4" THEN 4 ELSE
               IF c = "5" THEN 5 ELSE
               IF c = "6" THEN 6 ELSE
               IF c = "7" THEN 7 ELSE
               IF c = "8" THEN 8 ELSE 9

DigitChar(n) == <<"0", "1", "2", "3", "4", "5", "6", "7", "8", "9">>[n + 1]

\* every text of length at most n over the alphabet A
RECURSIVE Texts(_, _)
Texts(A, n) == IF n = 0 THEN {<<>>}
               ELSE LET T == Texts(A, n - 1)
                    IN  T \cup {Append(t, c) : t \in {u \in T : Len(u) = n - 1}, c \in A}

(***************************** str methods **********************************)
\* str.lstrip()
RECURSIVE LStrip(_)
LStrip(s) == IF s # <<>> /\ Head(s) \in Whitespace THEN LStrip(Tail(s)) ELSE s

\* str.rstrip()
RECURSIVE RStrip(_)
RStrip(s) == IF s # <<>> /\ s[Len(s)] \in Whitespace
             THEN RStrip(SubSeq(s, 1, Len(s) - 1)) ELSE s

\* str.strip()
Strip(s) == RStrip(LStrip(s))

\* str.replace(pat, ''), pat non-empty: every occurrence, left to right
RECURSIVE Remove(_, _)
Remove(s, pat) ==
    IF Len(s) < Len(pat) THEN s
    ELSE IF SubSeq(s, 1, Len(pat)) = pat
         THEN Remove(SubSeq(s, Len(pat) + 1, Len(s)), pat)
         ELSE <<Head(s)>> \o Remove(Tail(s), pat)

UpperChar(c) == IF c = "a" THEN "A" ELSE
                IF c = "b" THEN "B" ELSE
                IF c = "n" THEN "N" ELSE c

\* str.upper()
Upper(s) == [i \in 1..Len(s) |-> UpperChar(s[i])]

(***************************** values ***************************************)
NaN == [k |-> "nan"]

NaT == [k |-> "nat"]

Str(s) == [k |-> "str", s |-> s]

Num(neg, ip, fd) == [k |-> "num", neg |-> neg, ip |-> ip, fd |-> fd]

Date(y, m, d) == [k |-> "date", y |-> y, m |-> m, d |-> d]

\* pd.isna
IsNa(v) == v.k \in {"nan", "nat"}

\* the fractional digits without their trailing zeros
RECURSIVE TrimZeros(_)
TrimZeros(ds) == IF ds # <<>> /\ ds[Len(ds)] = "0"
                 THEN TrimZeros(SubSeq(ds, 1, Len(ds) - 1)) ELSE ds

\* the value of a run of digits
RECURSIVE DigitsVal(_)
DigitsVal(ds) == IF ds = <<>> THEN 0
                 ELSE 10 * DigitsVal(SubSeq(ds, 1, Len(ds) - 1)) + DigitVal(ds[Len(ds)])

\* the decimal digits of a natural number
RECURSIVE NatChars(_)
NatChars(n) == IF n < 10 THEN <<DigitChar(n)>>
               ELSE Append(NatChars(n \div 10), DigitChar(n % 10))

AllDigits(s) == \A i \in 1..Len(s) : s[i] \in Digits

\* the decimal a text denotes: optional sign, digits, optional point and
\* digits, at least one digit, white space around it skipped; NaN otherwise
\* (float(), and pandas' numeric tokenizer, on the characters of the model)
ParseDecimal(s) ==
    LET t    == Strip(s)
        neg  == t # <<>> /\ Head(t) = "-"
        u    == IF t # <<>> /\ Head(t) \in {"-", "+"} THEN Tail(t) ELSE t
        dots == {i \in 1..Len(u) : u[i] = "."}
        p    == IF dots = {} THEN Len(u) + 1 ELSE CHOOSE i \in dots : \A j \in dots : i <= j
        ipd  == SubSeq(u, 1, p - 1)
        fpd  == SubSeq(u, p + 1, Len(u))
    IN  IF /\ AllDigits(ipd)
           /\ AllDigits(fpd)
           /\ Len(ipd) + Len(fpd) > 0
        THEN LET ip == DigitsVal(ipd)
                 fd == TrimZeros(fpd)
             IN  Num(neg /\ (ip # 0 \/ fd # <<>>), ip, fd)
        ELSE NaN

\* a < b for two numbers
RECURSIVE FracLess(_, _)
FracLess(a, b) ==
    IF b = <<>> THEN FALSE
    ELSE IF a = <<>> THEN TRUE
    ELSE IF Head(a) # Head(b) THEN DigitVal(Head(a)) < DigitVal(Head(b))
    ELSE FracLess(Tail(a), Tail(b))

MagLess(a, b) == a.ip < b.ip \/ (a.ip = b.ip /\ FracLess(a.fd, b.fd))

NumLess(a, b) ==
    IF a.neg /\ ~b.neg THEN TRUE
    ELSE IF ~a.neg /\ b.neg THEN FALSE
    ELSE IF a.neg THEN MagLess(b, a)
    ELSE MagLess(a, b)

DateLess(a, b) ==
    \/ a.y < b.y
    \/ a.y = b.y /\ a.m < b.m
    \/ a.y = b.y /\ a.m = b.m /\ a.d < b.d

(***************************** dates ****************************************)
LeapYear(y) == (y % 4 = 0 /\ y % 100 # 0) \/ y % 400 = 0

DaysIn(y, m) == IF m = 2 THEN (IF LeapYear(y) THEN 29 ELSE 28)
                ELSE IF m \in {4, 6, 9, 11} THEN 30 ELSE 31

\* a text "YYYY-MM-DD" naming a day of the calendar
IsIsoDate(s) ==
    /\ Len(s) = 10
    /\ s[5] = "-" /\ s[8] = "-"
    /\ AllDigits(SubSeq(s, 1, 4)) /\ AllDigits(SubSeq(s, 6, 7)) /\ AllDigits(SubSeq(s, 9, 10))
    /\ LET y == DigitsVal(SubSeq(s, 1, 4))
           m == DigitsVal(SubSeq(s, 6, 7))
           d == DigitsVal(SubSeq(s, 9, 10))
       IN  y >= 1 /\ m \in 1..12 /\ d \in 1..DaysIn(y, m)

\* pd.to_datetime of one cell that holds a date
ParseDate(s) == Date(DigitsVal(SubSeq(s, 1, 4)), DigitsVal(SubSeq(s, 6, 7)),
                     DigitsVal(SubSeq(s, 9, 10)))

MonthName(m) == <<"January", "February", "March", "April", "May", "June", "July",
                  "August", "September", "October", "November", "December">>[m]

\* Timestamp.strftime('%B %Y'); NaT formats to NaN
StrftimeMonth(v) == IF v.k = "date" THEN Str(<<MonthName(v.m), " ">> \o NatChars(v.y))
                    ELSE NaN

(***************************** tables ***************************************)
DateCol == "Today's Date"

\* numeric_columns of load_data
numeric_columns == {"ROE", "ROCE", "P/E Ratio", "Book Value", "Dividend Yield"}

\* the columns the dashboard reads
Columns == {DateCol, "Symbol", "LTP", "%chng", "Sector", "Industry", "Market Cap", "About"}
           \cup numeric_columns

\* pd.DataFrame(): no columns, no rows
EmptyFrame == [k |-> "frame", cols |-> {}, dtype |-> <<>>, rows |-> <<>>]

\* DataFrame.empty
IsEmpty(df) == df.rows = <<>> \/ df.cols = {}

\* the cells of one column of a file
CellsOf(f, c) == {f.rows[i][c] : i \in 1..Len(f.rows)}

\* the dtype pd.read_csv infers for a column: int64 when every cell is a whole
\* number, float64 when every cell is blank or a number, object otherwise
InferDtype(cells) ==
    IF cells = {} THEN "object"
    ELSE IF \E s \in cells : s # <<>> /\ ParseDecimal(s) = NaN THEN "object"
    ELSE IF \A s \in cells : s # <<>> /\ ParseDecimal(s).fd = <<>> /\ "." \notin {s[i] : i \in 1..Len(s)}
         THEN "int64"
         ELSE "float64"

\* the value pd.read_csv gives a cell of a column of that dtype
ReadCell(s, dt) == IF s = <<>> THEN NaN
                   ELSE IF dt = "object" THEN Str(s)
                   ELSE ParseDecimal(s)

\* pd.read_csv of a readable file with a header
read_csv(f) ==
    LET dt == [c \in f.header |-> InferDtype(CellsOf(f, c))]
    IN  [k     |-> "frame",
         cols  |-> f.header,
         dtype |-> dt,
         rows  |-> [i \in 1..Len(f.rows) |-> [c \in f.header |-> ReadCell(f.rows[i][c], dt[c])]]]

\* str(v) of one value of a column: Series.astype(str)
AsStr(v, dt) ==
    IF v.k = "str" THEN v.s
    ELSE IF v.k = "nan" THEN <<"n", "a", "n">>
    ELSE (IF v.neg THEN <<"-">> ELSE <<>>) \o NatChars(v.ip) \o
         (IF dt = "int64" THEN <<>>
          ELSE <<".">> \o (IF v.fd = <<>> THEN <<"0">> ELSE v.fd))

\* the first match of the pattern (\d+(?:\.\d+)?) in a text, <<>> when none
RegexNumber(s) ==
    LET starts == {i \in 1..Len(s) : s[i] \in Digits}
    IN  IF starts = {} THEN <<>>
        ELSE LET i == CHOOSE a \in starts : \A b \in starts : a <= b
                 RunEnd(a) == CHOOSE e \in a..Len(s) :
                                  /\ \A x \in a..e : s[x] \in Digits
                                  /\ (e = Len(s) \/ s[e + 1] \notin Digits)
                 j == RunEnd(i)
             IN  IF j + 2 <= Len(s) /\ s[j + 1] = "." /\ s[j + 2] \in Digits
                 THEN SubSeq(s, i, RunEnd(j + 2))
                 ELSE SubSeq(s, i, j)

\* df[col] = vals, one value for every row, the column getting dtype dt
SetColumn(df, col, dt, vals) ==
    [k     |-> "frame",
     cols  |-> df.cols \cup {col},
     dtype |-> [c \in df.cols \cup {col} |-> IF c = col THEN dt ELSE df.dtype[c]],
     rows  |-> [i \in 1..Len(df.rows) |->
                  [c \in df.cols \cup {col} |-> IF c = col THEN vals[i] ELSE df.rows[i][c]]]]

(***************************** load_data ************************************)
\* pd.to_datetime raises on a cell that is not blank and names no date
DateParses(df) ==
    \A i \in 1..Len(df.rows) : LET v == df.rows[i][DateCol] IN v.k = "nan" \/ (v.k = "str" /\ IsIsoDate(v.s))

ToDatetime(v) == IF v.k = "str" /\ IsIsoDate(v.s) THEN ParseDate(v.s) ELSE NaT

\* lines 111-112: the percent-change cell
CleanPercent(v, dt) == ParseDecimal(Strip(Remove(AsStr(v, dt), <<"%">>)))

\* lines 118-119: a ratio cell
CleanRatio(v, dt) == ParseDecimal(Remove(Remove(AsStr(v, dt), <<"%">>), SrcGlyph))

\* lines 122-123: the market-cap cell
CleanMarketCap(v, dt) ==
    LET m == RegexNumber(Remove(Remove(AsStr(v, dt), SrcGlyph), <<",">>))
    IN  IF m = <<>> THEN NaN ELSE ParseDecimal(m)

\* line 126: the symbol cell
CleanSymbol(v, dt) == Str(Upper(Strip(AsStr(v, dt))))

\* the value lines 108-126 leave in a cell of column c, given the value and
\* the dtype read_csv gave it: each column is cleaned from its own cells, the
\* ratio columns only when the file has them, and Sector, Industry, About and
\* LTP are left as read
CleanCell(c, v, dt) ==
    IF c = DateCol THEN ToDatetime(v)
    ELSE IF c = "%chng" THEN CleanPercent(v, dt)
    ELSE IF c \in numeric_columns THEN CleanRatio(v, dt)
    ELSE IF c = "Market Cap" THEN CleanMarketCap(v, dt)
    ELSE IF c = "Symbol" THEN CleanSymbol(v, dt)
    ELSE v

\* the dtype of column c after those lines
CleanDtype(c, dt) ==
    IF c = DateCol THEN "datetime64"
    ELSE IF c \in {"%chng", "Market Cap"} \cup numeric_columns THEN "float64"
    ELSE IF c = "Symbol" THEN "object"
    ELSE dt

\* lines 108-126 on the table read_csv returned
Cleaned(df) ==
    [k     |-> "frame",
     cols  |-> df.cols,
     dtype |-> [c \in df.cols |-> CleanDtype(c, df.dtype[c])],
     rows  |-> [i \in 1..Len(df.rows) |->
                  [c \in df.cols |-> CleanCell(c, df.rows[i][c], df.dtype[c])]]]

\* LoadRaises with the dates coerced (errors='coerce') instead of checked
LoadRaises_DatesCoerced(f) ==
    \/ ~f.readable
    \/ f.header = {}
    \/ DateCol \notin f.header
    \/ "%chng" \notin f.header
    \/ "Market Cap" \notin f.header
    \/ "Symbol" \notin f.header

\* the try block of load_data raises: the file cannot be read or is empty, a
\* column the block indexes is absent, or a date cannot be parsed
LoadRaises(f) ==
    \/ ~f.readable
    \/ f.header = {}
    \/ DateCol \notin f.header
    \/ ~DateParses(read_csv(f))
    \/ "%chng" \notin f.header
    \/ "Market Cap" \notin f.header
    \/ "Symbol" \notin f.header

\* load_data: the table, or pd.DataFrame() when the try block raises
load_data(f) == IF LoadRaises(f) THEN EmptyFrame ELSE Cleaned(read_csv(f))

(***************************** CSV files ************************************)
None == [k |-> "none"]

IsoText(y4, m2, d2) == y4 \o <<"-">> \o m2 \o <<"-">> \o d2

Jan05 == IsoText(<<"2", "0", "2", "4">>, <<"0", "1">>, <<"0", "5">>)

\* a well-formed cell for each column
DefaultCell(c) ==
    IF c = DateCol THEN Jan05
    ELSE IF c = "Symbol" THEN <<"a">>
    ELSE IF c = "%chng" THEN <<"1", "%">>
    ELSE IF c \in {"Sector", "Industry", "About"} THEN <<"S">>
    ELSE <<"1">>

DefaultRow(h) == [c \in h |-> DefaultCell(c)]

\* date cells: a date, a blank, a day that is not in the calendar, a text
\* that is no date
DateCells == {Jan05, <<>>,
              IsoText(<<"2", "0", "2", "4">>, <<"0", "2">>, <<"3", "0">>),
              <<"?">>}

SymbolAlphabet == {"a", "B", " "}

NumericAlphabet == {"1", ".", ",", "%", " ", Rupee} \cup {SrcGlyph[i] : i \in 1..Len(SrcGlyph)}

\* the numeric fields of a record
NumericFields == {"LTP", "%chng", "Market Cap"} \cup numeric_columns

\* the headers: every column, one column short, or none at all
Headers == {Columns, {}} \cup {Columns \ {c} : c \in Columns}

\* the rows of the files that vary the shape: none, a well-formed one, or one
\* with each kind of date cell
RowsFor(h) ==
    {<<>>, <<DefaultRow(h)>>}
    \cup {<<[DefaultRow(h) EXCEPT ![c] = d]>> : c \in h \cap {DateCol}, d \in DateCells}

\* a file that varies one cell of the second of two rows
ProbeFile(c, s) ==
    [readable |-> TRUE, header |-> Columns,
     rows |-> <<DefaultRow(Columns), [DefaultRow(Columns) EXCEPT ![c] = s]>>]

(***************************** the loader alone ******************************)
\* the file varies in shape (readability, header, rows) or in one cell
InitLoad ==
    /\ pc = "start"
    /\ \/ \E r \in BOOLEAN, h \in Headers : \E rs \in RowsFor(h) :
             file = [readable |-> r, header |-> h, rows |-> rs]
       \/ \E c \in NumericFields, s \in Texts(NumericAlphabet, MaxCellLen) :
             file = ProbeFile(c, s)
       \/ \E s \in Texts(SymbolAlphabet, MaxCellLen) : file = ProbeFile("Symbol", s)
    /\ cache = None
    /\ data = None
    /\ arg = None
    /\ out = None

\* line 310: data = load_data('financial_metrics.csv'); st.cache_data runs
\* load_data once for the file and hands every run its own copy of the result
LoadData ==
    /\ pc = "start"
    /\ cache' = IF cache = None THEN load_data(file) ELSE cache
    /\ data' = cache'
    /\ pc' = "loaded"
    /\ UNCHANGED <<file, arg, out>>

NextLoad == LoadData

SpecLoad == InitLoad /\ [][NextLoad]_vars

(***************************** claims on the loader **************************)
\* a date cell of the file that is not blank and names no day of the calendar
DateUnparseable(f) ==
    /\ DateCol \in f.header
    /\ \E i \in 1..Len(f.rows) :
          f.rows[i][DateCol] # <<>> /\ ~IsIsoDate(f.rows[i][DateCol])

\* the columns load_data indexes without a guard
IndexedColumns == {DateCol, "%chng", "Market Cap", "Symbol"}

C4_SymbolNormalized ==
    (pc = "loaded" /\ data # EmptyFrame) =>
        \A i \in 1..Len(data.rows) :
            LET v == data.rows[i]["Symbol"]
            IN  v.k = "str" /\ v.s # <<>> /\ Strip(v.s) = v.s /\ Upper(v.s) = v.s

\* C5 as stated: after a successful load every numeric field that the table
\* has is a number or missing, never a text
C5_NumericOrMissing ==
    (pc = "loaded" /\ data # EmptyFrame) =>
        \A i \in 1..Len(data.rows) : \A c \in NumericFields \cap data.cols :
            data.rows[i][c].k \in {"num", "nan"}

(***************************** format_number ********************************)
\* the thresholds of format_number, as powers of ten
BillionExp == 9

CroreExp == 7

LakhExp == 5

RECURSIVE Pow10(_)
Pow10(k) == IF k = 0 THEN 1 ELSE 10 * Pow10(k - 1)

\* the k low decimal digits of n, with leading zeros
RECURSIVE LowDigits(_, _)
LowDigits(n, k) == IF k = 0 THEN <<>>
                   ELSE Append(LowDigits(n \div 10, k - 1), DigitChar(n % 10))

\* v / 10^k, exactly
Scale(v, k) == Num(v.neg, v.ip \div Pow10(k), TrimZeros(LowDigits(v.ip % Pow10(k), k) \o v.fd))

\* the digits of a natural number with a comma before every group of three
RECURSIVE Grouped(_)
Grouped(n) == IF n < 1000 THEN NatChars(n)
              ELSE Grouped(n \div 1000) \o <<",">> \o LowDigits(n % 1000, 3)

\* the hundredths a number rounds to: the nearest one; a number half-way
\* between two is rounded by its binary double, to either of them.  The
\* result is the set of <<integer part, hundredths>> that can come out.
Round2(v) ==
    LET d(i) == IF i <= Len(v.fd) THEN DigitVal(v.fd[i]) ELSE 0
        h    == 10 * d(1) + d(2)
        dn   == <<v.ip, h>>
        up   == IF h = 99 THEN <<v.ip + 1, 0>> ELSE <<v.ip, h + 1>>
    IN  IF d(3) < 5 THEN {dn}
        ELSE IF d(3) > 5 \/ Len(v.fd) > 3 THEN {up}
        ELSE {dn, up}

\* f"{v:.2f}" and, with sep, f"{v:,.2f}"
Fixed2(v, sep) ==
    {(IF v.neg THEN <<"-">> ELSE <<>>)
       \o (IF sep THEN Grouped(r[1]) ELSE NatChars(r[1]))
       \o <<".">> \o LowDigits(r[2], 2) : r \in Round2(v)}

NA == <<"N", "/", "A">>

AtLeast(v, k) == ~NumLess(v, Num(FALSE, Pow10(k), <<>>))

\* lines 140-147: the text for a number
FormatScaled(v) ==
    IF AtLeast(v, BillionExp)
    THEN {SrcGlyph \o t \o <<"B">> : t \in Fixed2(Scale(v, BillionExp), FALSE)}
    ELSE IF AtLeast(v, CroreExp)
    THEN {SrcGlyph \o t \o <<"C", "r">> : t \in Fixed2(Scale(v, CroreExp), FALSE)}
    ELSE IF AtLeast(v, LakhExp)
    THEN {SrcGlyph \o t \o <<"L">> : t \in Fixed2(Scale(v, LakhExp), FALSE)}
    ELSE {SrcGlyph \o t : t \in Fixed2(v, TRUE)}

\* format_number: the texts it can return for a value (one, or two when the
\* number is half-way between two hundredths)
format_number(num) ==
    IF num.k \in {"nan", "nat", "none"} THEN {NA}
    ELSE IF num.k = "str"
    THEN LET v == ParseDecimal(Strip(Remove(Remove(num.s, SrcGlyph), <<",">>)))
         IN  IF v = NaN THEN {NA} ELSE FormatScaled(v)
    ELSE FormatScaled(num)

(***************************** the formatter alone ***************************)
FormatAlphabet == {"1", "5", ",", ".", " "}

Whole(n) == Num(FALSE, n, <<>>)

\* numbers around every threshold, a negative one, and fractions
FormatNumbers ==
    {Whole(n) : n \in {0, 500, 1234, 99999, 100000, 100500, 200000, 9999999, 10000000,
                       50000000, 999999999, 1000000000, 2000000000}}
    \cup {Num(TRUE, 500, <<>>), Num(FALSE, 1234, <<"5">>), Num(FALSE, 0, <<"1", "2", "5">>),
          Num(FALSE, 99999, <<"9", "9", "9">>)}

\* the glyphs a text starts with: none, the rupee sign, the source's literal
TextPrefixes == {<<>>, <<Rupee>>, SrcGlyph}

InitFormat ==
    /\ pc = "start"
    /\ file = None
    /\ cache = None
    /\ data = None
    /\ \/ arg \in {NaN, None} \cup FormatNumbers
       \/ \E p \in TextPrefixes, t \in Texts(FormatAlphabet, MaxCellLen) : arg = Str(p \o t)
       \/ \E p \in TextPrefixes, v \in FormatNumbers : arg = Str(p \o Grouped(v.ip))
    /\ out = None

\* one call of format_number
FormatNumber ==
    /\ pc = "start"
    /\ out' \in format_number(arg)
    /\ pc' = "formatted"
    /\ UNCHANGED <<file, cache, data, arg>>

NextFormat == FormatNumber

SpecFormat == InitFormat /\ [][NextFormat]_vars

(***************************** claim on the formatter ************************)
\* the value the claim formats: the number itself, or the number a text
\* denotes once rupee signs and thousands separators are stripped
ClaimValue(x) ==
    IF x.k = "num" THEN x
    ELSE IF x.k = "str" THEN ParseDecimal(Strip(Remove(Remove(x.s, <<Rupee>>), <<",">>)))
    ELSE NaN

\* the texts the claim allows for a value
ClaimTexts(x) ==
    LET v == ClaimValue(x)
    IN  IF v = NaN THEN {NA}
        ELSE IF AtLeast(v, 9)
        THEN {<<Rupee>> \o t \o <<"B">> : t \in Fixed2(Scale(v, 9), FALSE)}
        ELSE IF AtLeast(v, 7)
        THEN {<<Rupee>> \o t \o <<"C", "r">> : t \in Fixed2(Scale(v, 7), FALSE)}
        ELSE IF AtLeast(v, 5)
        THEN {<<Rupee>> \o t \o <<"L">> : t \in Fixed2(Scale(v, 5), FALSE)}
        ELSE {<<Rupee>> \o t : t \in Fixed2(v, TRUE)}

\* C6 as stated: format_number returns "N/A" for a missing or unparseable
\* value and otherwise the rupee sign, the scaled value with two decimals and
\* the suffix B, Cr, L or none; 1_000_000_000 gives the rupee sign and "1.00B"
C6_FormatCurrency ==
    pc = "formatted" =>
        /\ out \in ClaimTexts(arg)
        /\ arg = Whole(1000000000) => out = <<Rupee, "1", ".", "0", "0", "B">>
        /\ arg = Whole(50000000) => out = <<Rupee, "5", ".", "0", "0", "C", "r">>
        /\ arg = Whole(200000) => out = <<Rupee, "2", ".", "0", "0", "L">>
        /\ arg = Whole(500) => out = <<Rupee, "5", "0", "0", ".", "0", "0">>

(***************************** derived views ********************************)
\* an exception that leaves the function
Raised(e) == [k |-> "raised", e |-> e]

\* the orders of the row numbers in I: sequences that name each once
Orders(I) ==
    {p \in [1..Cardinality(I) -> I] : \A i, j \in 1..Cardinality(I) : i # j => p[i] # p[j]}

\* a sorts strictly before b in ascending order, NaT last
DateBefore(a, b) == a.k = "date" /\ (b.k # "date" \/ DateLess(a, b))

\* a sorts strictly before b in descending order, NaT last
DateAfter(a, b) == a.k = "date" /\ (b.k # "date" \/ DateLess(b, a))

\* a sorts strictly before b in descending order, NaN last
NumAfter(a, b) == a.k = "num" /\ (b.k # "num" \/ NumLess(b, a))

\* the running maximum of LTP at position i of the order p: NaN where LTP is
\* NaN, which the maximum skips (Series.cummax)
CumMax(df, p, i) ==
    LET v == df.rows[p[i]]["LTP"]
    IN  IF v.k # "num" THEN NaN
        ELSE IF \E j \in 1..i : LET w == df.rows[p[j]]["LTP"] IN w.k = "num" /\ NumLess(v, w)
             THEN CHOOSE w \in {df.rows[p[j]]["LTP"] : j \in 1..i} :
                      /\ w.k = "num"
                      /\ \A j \in 1..i : LET x == df.rows[p[j]]["LTP"]
                                         IN  x.k = "num" => ~NumLess(w, x)
             ELSE v

\* the numbers of a set, ascending
RECURSIVE Ascending(_)
Ascending(K) == IF K = {} THEN <<>>
                ELSE LET lo == CHOOSE i \in K : \A j \in K : i <= j
                     IN  <<lo>> \o Ascending(K \ {lo})

\* lines 157-158 for the rows taken in the order p
HighRows(df, p) ==
    LET IsHigh(i) == df.rows[p[i]]["LTP"].k = "num" /\ df.rows[p[i]]["LTP"] = CumMax(df, p, i)
        kept == Ascending({i \in 1..Len(p) : IsHigh(i)})
    IN  [k     |-> "frame",
         cols  |-> df.cols \cup {"High_LTP"},
         dtype |-> [c \in df.cols \cup {"High_LTP"} |->
                       IF c = "High_LTP" THEN df.dtype["LTP"] ELSE df.dtype[c]],
         rows  |-> [x \in 1..Len(kept) |->
                       [c \in df.cols \cup {"High_LTP"} |->
                           IF c = "High_LTP" THEN CumMax(df, p, kept[x])
                           ELSE df.rows[p[kept[x]]][c]]]]

\* sort_values("Today's Date"): ascending, NaT last; the default sort is not
\* stable, so rows of one date come in any order
DateOrders(df, I) ==
    {p \in Orders(I) : \A i, j \in 1..Len(p) :
        i < j => ~DateBefore(df.rows[p[j]][DateCol], df.rows[p[i]][DateCol])}

\* get_stock_highs: the tables it can return, or the exception it raises
get_stock_highs(df, symbol) ==
    IF symbol = <<>> THEN {EmptyFrame}
    ELSE IF "Symbol" \notin df.cols THEN {Raised("KeyError")}
    ELSE LET I == {i \in 1..Len(df.rows) : df.rows[i]["Symbol"] = Str(symbol)}
         IN  IF I = {} THEN {EmptyFrame}
             ELSE IF DateCol \notin df.cols \/ "LTP" \notin df.cols THEN {Raised("KeyError")}
             ELSE {HighRows(df, p) : p \in DateOrders(df, I)}

\* ValueCounts taken after the grouping: every symbol once
ValueCounts_AfterGrouping(df) ==
    [s \in {df.rows[i]["Symbol"] : i \in 1..Len(df.rows)} |-> 1]

\* Series.value_counts().to_dict()
ValueCounts(df) ==
    [s \in {df.rows[i]["Symbol"] : i \in 1..Len(df.rows)} |->
        Cardinality({i \in 1..Len(df.rows) : df.rows[i]["Symbol"] = s})]

\* row a sorts strictly before row b under
\* sort_values(["Today's Date", '%chng'], ascending=[False, False])
LatestBefore(a, b) ==
    \/ DateAfter(a[DateCol], b[DateCol])
    \/ /\ ~DateAfter(b[DateCol], a[DateCol])
       /\ NumAfter(a["%chng"], b["%chng"])

\* the rows p, in sorted order, with row i put before the first that sorts
\* strictly after it
RECURSIVE LatestInsert(_, _, _)
LatestInsert(df, p, i) ==
    IF p = <<>> THEN <<i>>
    ELSE IF LatestBefore(df.rows[i], df.rows[Head(p)]) THEN <<i>> \o p
    ELSE <<Head(p)>> \o LatestInsert(df, Tail(p), i)

\* the order of that sort over the first n rows; it is stable (a sort on
\* several keys): rows of equal keys keep the order of the table
RECURSIVE LatestSort(_, _)
LatestSort(df, n) == IF n = 0 THEN <<>> ELSE LatestInsert(df, LatestSort(df, n - 1), n)

LatestOrder(df) == LatestSort(df, Len(df.rows))

\* GroupBy.first() for one column: the first value that is not null among the
\* group's rows in the order p, and null when there is none
FirstValid(df, p, s, c) ==
    LET G == {i \in 1..Len(p) : df.rows[p[i]]["Symbol"] = s}
        V == {i \in G : ~IsNa(df.rows[p[i]][c])}
        Lo(X) == CHOOSE i \in X : \A j \in X : i <= j
    IN  df.rows[p[IF V = {} THEN Lo(G) ELSE Lo(V)]][c]

\* lines 256-257: one record per symbol, with its count
LatestRecords(df) ==
    LET p      == LatestOrder(df)
        counts == ValueCounts(df)
    IN  {[c \in df.cols \cup {"count"} |->
            IF c = "count" THEN Num(FALSE, counts[s], <<>>)
            ELSE IF c = "Symbol" THEN s
            ELSE FirstValid(df, p, s, c)] : s \in DOMAIN counts}

\* get_latest_stock_data: the tables it can return (the last sort, on count,
\* is not stable: records of one count come in any order), or the exception
get_latest_stock_data(df) ==
    IF "Symbol" \notin df.cols THEN {Raised("KeyError")}
    ELSE IF DateCol \notin df.cols \/ "%chng" \notin df.cols THEN {Raised("KeyError")}
    ELSE LET R == LatestRecords(df)
         IN  {[k     |-> "frame",
               cols  |-> df.cols \cup {"count"},
               dtype |-> [c \in df.cols \cup {"count"} |->
                             IF c = "count" THEN "int64" ELSE df.dtype[c]],
               rows  |-> q] :
                 q \in {q \in [1..Cardinality(R) -> R] :
                          /\ \A i, j \in 1..Cardinality(R) : i # j => q[i] # q[j]
                          /\ \A i, j \in 1..Cardinality(R) :
                                i < j => ~NumLess(q[i]["count"], q[j]["count"])}}

(***************************** the derived views alone ***********************)
\* the i-th day of January 2024
Day(i) == IsoText(<<"2", "0", "2", "4">>, <<"0", "1">>, <<"0", DigitChar(i)>>)

\* the symbol cell of row i: one symbol throughout, or every second cell blank
\* but for a space
SymbolPatterns == {"same", "alternate"}

SymbolCell(pat, i) == IF pat = "alternate" /\ i % 2 = 0 THEN <<" ">> ELSE <<"a">>

\* the date cell of row i of n: ascending, descending, or two rows a day
DatePatterns == {"ascending", "descending", "pairs"}

DateCell(pat, i) == IF pat = "ascending" THEN Day(i)
                    ELSE IF pat = "descending" THEN Day(9 - i)
                    ELSE Day((i + 1) \div 2)

PriceCells == {<<"9">>, <<"1", "0">>, <<"1", "2">>, <<"1", "5">>, <<>>}

HighFile(n, prices, sp, dp) ==
    [readable |-> TRUE, header |-> Columns,
     rows |-> [i \in 1..n |-> [DefaultRow(Columns) EXCEPT
                                  ![DateCol] = DateCell(dp, i),
                                  !["Symbol"] = SymbolCell(sp, i),
                                  !["LTP"] = prices[i]]]]

\* prices 10, 12, 12, 9, 15 on five consecutive days
PlateauFile ==
    HighFile(5, <<<<"1", "0">>, <<"1", "2">>, <<"1", "2">>, <<"9">>, <<"1", "5">>>>,
             "same", "ascending")

LatestCells == [d : {1, 2}, chng : {<<"1">>, <<"2">>, <<>>}]

\* the market-cap cell of row i: given throughout, or blank in the first row
MarketCapPatterns == {"given", "first blank"}

MarketCapCell(pat, i) == IF pat = "first blank" /\ i = 1 THEN <<>> ELSE <<"5">>

LatestFile(n, cells, sp, mp) ==
    [readable |-> TRUE, header |-> Columns,
     rows |-> [i \in 1..n |-> [DefaultRow(Columns) EXCEPT
                                  ![DateCol] = Day(cells[i].d),
                                  !["Symbol"] = SymbolCell(sp, i),
                                  !["%chng"] = cells[i].chng,
                                  !["Market Cap"] = MarketCapCell(mp, i)]]]

\* a file that cannot be read
UnreadableFile == [readable |-> FALSE, header |-> Columns, rows |-> <<>>]

\* the symbols asked for: one with rows, the empty one, one without rows
SymbolArgs == {<<"A">>, <<>>, <<"B">>}

InitHighs ==
    /\ pc = "start"
    /\ \/ file = PlateauFile
       \/ \E n \in 0..MaxHighRows, sp \in SymbolPatterns, dp \in DatePatterns :
             \E ps \in [1..n -> PriceCells] : file = HighFile(n, ps, sp, dp)
    /\ cache = None
    /\ data = None
    /\ arg = None
    /\ out = None

InitLatest ==
    /\ pc = "start"
    /\ \/ file = UnreadableFile
       \/ \E n \in 0..MaxRows, sp \in SymbolPatterns, mp \in MarketCapPatterns :
             \E cs \in [1..n -> LatestCells] : file = LatestFile(n, cs, sp, mp)
    /\ cache = None
    /\ data = None
    /\ arg = None
    /\ out = None

\* one call get_stock_highs(data, symbol)
CallHighs ==
    /\ pc = "loaded"
    /\ \E symbol \in SymbolArgs :
          /\ arg' = Str(symbol)
          /\ out' \in get_stock_highs(data, symbol)
    /\ pc' = "highs"
    /\ UNCHANGED <<file, cache, data>>

\* one call get_latest_stock_data(data)
CallLatest ==
    /\ pc = "loaded"
    /\ arg' = data
    /\ out' \in get_latest_stock_data(data)
    /\ pc' = "latest"
    /\ UNCHANGED <<file, cache, data>>

NextHighs == LoadData \/ CallHighs

NextLatest == LoadData \/ CallLatest

SpecHighs == InitHighs /\ [][NextHighs]_vars

SpecLatest == InitLatest /\ [][NextLatest]_vars

(***************************** claims on the derived views *******************)
\* the rows of a table that carry a symbol
RowsOf(df, s) == {i \in 1..Len(df.rows) : df.rows[i]["Symbol"] = s}

\* row i has the maximum date of its symbol and, among the rows of that date,
\* the maximum percent-change, a missing one ranking last
IsLatestRow(df, i) ==
    \A j \in RowsOf(df, df.rows[i]["Symbol"]) : ~LatestBefore(df.rows[j], df.rows[i])

\* C1 as stated: for a non-empty table, the record of every symbol is one row
\* of the input, a latest one, with every field as that row has it
C1_LatestIsOneRow ==
    (pc = "latest" /\ arg.rows # <<>>) =>
        /\ out.k = "frame"
        /\ \A s \in {arg.rows[i]["Symbol"] : i \in 1..Len(arg.rows)} :
              \E x \in 1..Len(out.rows) : out.rows[x]["Symbol"] = s
        /\ \A x \in 1..Len(out.rows) :
              \E i \in RowsOf(arg, out.rows[x]["Symbol"]) :
                  /\ IsLatestRow(arg, i)
                  /\ \A c \in arg.cols : out.rows[x][c] = arg.rows[i][c]

\* the symbols of a result with their counts
SymbolCounts(t) == {<<t.rows[x]["Symbol"], t.rows[x]["count"]>> : x \in 1..Len(t.rows)}

\* the table with its rows in the order p
Reordered(df, p) == [df EXCEPT !.rows = [i \in 1..Len(p) |-> df.rows[p[i]]]]

\* C7: for a table of records, the result has exactly one record for each
\* symbol of the input, its count is the number of input rows of that symbol,
\* and every reordering of the input rows gives the same counts
C7_OnePerSymbolWithCount ==
    (pc = "latest" /\ "Symbol" \in arg.cols) =>
        LET S == {arg.rows[i]["Symbol"] : i \in 1..Len(arg.rows)}
        IN  /\ out.k = "frame"
            /\ Len(out.rows) = Cardinality(S)
            /\ SymbolCounts(out) = {<<s, Whole(Cardinality(RowsOf(arg, s)))>> : s \in S}
            /\ \A p \in Orders(1..Len(arg.rows)) :
                  \A t \in get_latest_stock_data(Reordered(arg, p)) :
                      SymbolCounts(t) = SymbolCounts(out)

C7_Witness ==
    /\ pc = "latest"
    /\ out.k = "frame"
    /\ Len(out.rows) = 2
    /\ out.rows[1]["count"] = Whole(2)
    /\ out.rows[2]["count"] = Whole(1)

\* C9 as stated: on an empty table, with or without columns, the result is
\* empty and nothing is raised
C9_LatestOnEmpty ==
    (pc = "latest" /\ arg.rows = <<>>) => (out.k = "frame" /\ out.rows = <<>>)

\* the price at position i of the order p is the running maximum there
IsRunningMax(df, p, i) ==
    LET v == df.rows[p[i]]["LTP"]
    IN  /\ v.k = "num"
        /\ \A j \in 1..i : LET w == df.rows[p[j]]["LTP"] IN w.k = "num" => ~NumLess(v, w)

\* C2 as stated: for every table of records and every symbol, the result is
\* the rows of the symbol, in ascending date order, whose price equals the
\* running maximum, no other row and none missing; none for a symbol without
\* rows; prices 10, 12, 12, 9, 15 give the rows of days 1, 2, 3 and 5
C2_HighsAreRunningMax ==
    (pc = "highs" /\ "Symbol" \in data.cols) =>
        /\ out.k = "frame"
        /\ \E p \in DateOrders(data, RowsOf(data, arg)) :
              LET kept == Ascending({i \in 1..Len(p) : IsRunningMax(data, p, i)})
              IN  /\ Len(out.rows) = Len(kept)
                  /\ \A x \in 1..Len(kept) : \A c \in data.cols :
                        out.rows[x][c] = data.rows[p[kept[x]]][c]
        /\ (file = PlateauFile /\ arg = Str(<<"A">>)) =>
              [x \in 1..Len(out.rows) |-> out.rows[x][DateCol].d] = <<1, 2, 3, 5>>

(***************************** main *****************************************)
\* what a run leaves on the page, and the exception that ended it, if any
Page(shown, raised) == [k |-> "page", shown |-> shown, raised |-> raised]

\* df[mask]: the rows whose numbers are in I, in the order of the table
Filter(df, I) ==
    LET K == Ascending(I)
    IN  [df EXCEPT !.rows = [x \in 1..Len(K) |-> df.rows[K[x]]]]

\* the numbers of the rows with a value of V in the column
Where(df, col, V) == {i \in 1..Len(df.rows) : df.rows[i][col] \in V}

\* the fields create_stock_card reads with row[...]: lines 194, 197, 213, 216
\* and 221
CardIndexed == {"%chng", "Symbol", "count", "Days Since High", "LTP"}

\* create_stock_card: the card, or the KeyError of a field the row lacks
create_stock_card(row) ==
    IF \E c \in CardIndexed : c \notin DOMAIN row THEN Raised("KeyError")
    ELSE [k |-> "card", symbol |-> row["Symbol"], count |-> row["count"]]

\* lines 495-497: the cards rendered before one raises, and that exception
RECURSIVE RenderCards(_, _, _)
RenderCards(rows, i, shown) ==
    IF i > Len(rows) THEN Page(shown, "none")
    ELSE LET card == create_stock_card(rows[i])
         IN  IF card.k = "raised" THEN Page(shown, card.e)
             ELSE RenderCards(rows, i + 1, Append(shown, "stock_card"))

\* the names bound in main when line 362 runs: its locals so far and the
\* names of the module
NamesAtChart == {"data", "view_type", "search_symbol", "high_dates", "metrics_col1",
                 "metrics_col2", "metrics_col3", "max_price", "total_highs",
                 "latest_high", "display_df", "st", "pd", "datetime", "go"}

\* the columns of display_df[['Date', 'LTP', 'Change']], line 352
TimelineColumns == {"Date", "LTP", "Change"}

\* lines 329-400, a symbol given: the pages the Search view can end in
SearchPages(df, symbol) ==
    IF symbol = <<>> THEN {Page(<<"info_enter_symbol">>, "none")}
    ELSE {IF high_dates.k = "raised" THEN Page(<<>>, high_dates.e)
          ELSE IF IsEmpty(high_dates) THEN Page(<<"warning_no_symbol">>, "none")
          ELSE LET s1 == <<"highs_header", "metric_all_time_high", "metric_high_points",
                           "metric_latest_high", "timeline_header">>
               IN  IF DateCol \notin TimelineColumns THEN Page(s1, "KeyError")
                   ELSE IF {"fig", "stock_data"} \ NamesAtChart # {}
                   THEN Page(Append(s1, "highs_table"), "NameError")
                   ELSE LET s2 == s1 \o <<"highs_table", "chart">>
                            latest == CHOOSE t \in get_latest_stock_data(
                                          Filter(df, Where(df, "Symbol", {Str(symbol)}))) : TRUE
                        IN  IF latest.k = "raised" THEN Page(s2, latest.e)
                            ELSE IF IsEmpty(latest) THEN Page(s2, "none")
                            ELSE RenderCards(<<latest.rows[1]>>, 1, Append(s2, "details_header"))
            : high_dates \in get_stock_highs(df, symbol)}

\* lines 468-471: the symbol filter and the sector filter
ApplyFilters(df, symbol, sectors) ==
    LET f1 == IF symbol # <<>> THEN Filter(df, Where(df, "Symbol", {Str(symbol)})) ELSE df
    IN  IF sectors # {} THEN Filter(f1, Where(f1, "Sector", sectors)) ELSE f1

\* lines 473-499: the pages the other views can end in
ResultPages(filtered) ==
    IF IsEmpty(filtered) THEN {Page(<<"warning_no_data">>, "none")}
    ELSE LET s1 == <<"analysis_header", "metric_total_stocks", "metric_total_sectors",
                     "metric_average_change", "sector_chart", "details_header">>
         IN  {IF latest.k = "raised" THEN Page(s1, latest.e)
              ELSE RenderCards(latest.rows, 1, s1) : latest \in get_latest_stock_data(filtered)}

\* the dates of a table
DatesOf(df) == {df.rows[i][DateCol] : i \in 1..Len(df.rows)}

\* the sectors of a table: data['Sector'].unique()
SectorsOf(df) == {df.rows[i]["Sector"] : i \in 1..Len(df.rows)}

\* the widget values of the model
DateChoices == {Date(2024, 1, 1), Date(2024, 1, 2), Date(2024, 2, 1)}

SearchTexts == {<<>>, <<" ", "a">>, <<"b">>}

FilterTexts == {<<>>, <<" ", "a">>}

SectorChoices(df) == {{}, SectorsOf(df) \cap {Str(<<"S">>)}}

Widgets(view, d1, d2, month, text, sectors) ==
    [k |-> "widgets", view |-> view, d1 |-> d1, d2 |-> d2, month |-> month,
     text |-> text, sectors |-> sectors]

\* the files of main: rows of two months and two sectors
Feb01 == IsoText(<<"2", "0", "2", "4">>, <<"0", "2">>, <<"0", "1">>)

MainCells == [date : {Day(1), Feb01}, sector : {<<"S">>, <<"T">>}]

MainFile(n, cells, sp) ==
    [readable |-> TRUE, header |-> Columns,
     rows |-> [i \in 1..n |-> [DefaultRow(Columns) EXCEPT
                                  ![DateCol] = cells[i].date,
                                  !["Symbol"] = SymbolCell(sp, i),
                                  !["Sector"] = cells[i].sector]]]

InitMain ==
    /\ pc = "start"
    /\ \/ file = UnreadableFile
       \/ \E n \in 0..MaxRows, sp \in SymbolPatterns :
             \E cs \in [1..n -> MainCells] : file = MainFile(n, cs, sp)
    /\ cache = None
    /\ data = None
    /\ arg = None
    /\ out = None

\* lines 311-313: nothing was loaded
NoData ==
    /\ pc = "loaded"
    /\ IsEmpty(data)
    /\ arg' = None
    /\ out' = Page(<<"error_no_data">>, "none")
    /\ pc' = "done"
    /\ UNCHANGED <<file, cache, data>>

\* lines 322-400: the Search view
RunSearch ==
    /\ pc = "loaded"
    /\ ~IsEmpty(data)
    /\ \E text \in SearchTexts :
          /\ arg' = Widgets("Search", None, None, None, text, {})
          /\ out' \in SearchPages(data, Upper(Strip(text)))
    /\ pc' = "done"
    /\ UNCHANGED <<file, cache, data>>

\* lines 403-412 and 451-499: the Specific Date view
RunSpecificDate ==
    /\ pc = "loaded"
    /\ ~IsEmpty(data)
    /\ \E d \in DateChoices, text \in FilterTexts, sectors \in SectorChoices(data) :
          \* st.date_input: between the first and the last date of the table
          /\ \A x \in DatesOf(data) : x.k = "date"
          /\ \E x \in DatesOf(data) : ~DateLess(d, x)
          /\ \E x \in DatesOf(data) : ~DateLess(x, d)
          /\ arg' = Widgets("Specific Date", d, None, None, text, sectors)
          /\ out' \in ResultPages(ApplyFilters(Filter(data, Where(data, DateCol, {d})),
                                                 Upper(Strip(text)), sectors))
    /\ pc' = "done"
    /\ UNCHANGED <<file, cache, data>>

\* lines 414-437 and 451-499: the Date Range view
RunDateRange ==
    /\ pc = "loaded"
    /\ ~IsEmpty(data)
    /\ \E d1 \in DateChoices, d2 \in DateChoices, text \in FilterTexts,
          sectors \in SectorChoices(data) :
          /\ arg' = Widgets("Date Range", d1, d2, None,
                            IF DateLess(d2, d1) THEN <<>> ELSE text,
                            IF DateLess(d2, d1) THEN {} ELSE sectors)
          /\ LET inRange == {x \in DatesOf(data) :
                                 x.k = "date" /\ ~DateLess(x, d1) /\ ~DateLess(d2, x)}
             IN  IF DateLess(d2, d1) THEN out' = Page(<<"error_end_before_start">>, "none")
                 ELSE out' \in ResultPages(ApplyFilters(Filter(data, Where(data, DateCol, inRange)),
                                                        Upper(Strip(text)), sectors))
    /\ pc' = "done"
    /\ UNCHANGED <<file, cache, data>>

\* lines 439-449 and 451-499: the Month view; line 440 adds the column Month
\* to the table load_data returned
RunMonth ==
    /\ pc = "loaded"
    /\ ~IsEmpty(data)
    /\ LET withMonth == SetColumn(data, "Month", "object",
                                  [i \in 1..Len(data.rows) |-> StrftimeMonth(data.rows[i][DateCol])])
       IN  /\ data' = withMonth
           /\ \E m \in {withMonth.rows[i]["Month"] : i \in 1..Len(withMonth.rows)},
                 text \in FilterTexts, sectors \in SectorChoices(data) :
                 /\ arg' = Widgets("Month", None, None, m, text, sectors)
                 /\ out' \in ResultPages(ApplyFilters(
                                Filter(withMonth, {i \in 1..Len(withMonth.rows) :
                                          StrftimeMonth(withMonth.rows[i][DateCol]) = m}),
                                Upper(Strip(text)), sectors))
    /\ pc' = "done"
    /\ UNCHANGED <<file, cache>>

\* the next interaction runs the script again from the top
Rerun ==
    /\ pc = "done"
    /\ pc' = "start"
    /\ data' = None
    /\ arg' = None
    /\ out' = None
    /\ UNCHANGED <<file, cache>>

NextMain == LoadData \/ NoData \/ RunSearch \/ RunSpecificDate \/ RunDateRange \/ RunMonth \/ Rerun

SpecMain == InitMain /\ [][NextMain]_vars

(***************************** claims on main ********************************)
\* C8 as stated: after load returns, no step of a run in any view changes the
\* loaded table: its rows, columns and values are those load returned
C8_LoadedTableUnchanged ==
    pc = "done" => data = cache

\* the rows of the loaded table that a run of the other views selects
Selected(w) ==
    LET keep(r) == /\ (w.view = "Specific Date" => r[DateCol] = w.d1)
                   /\ (w.view = "Date Range" =>
                          ~DateLess(r[DateCol], w.d1) /\ ~DateLess(w.d2, r[DateCol]))
                   /\ (w.view = "Month" => StrftimeMonth(r[DateCol]) = w.month)
                   /\ (Upper(Strip(w.text)) # <<>> => r["Symbol"] = Str(Upper(Strip(w.text))))
                   /\ (w.sectors # {} => r["Sector"] \in w.sectors)
    IN  Filter(cache, {i \in 1..Len(cache.rows) : keep(cache.rows[i])})

\* the number of times an element is on the page
Times(shown, e) == Cardinality({i \in 1..Len(shown) : shown[i] = e})

\* C10 as stated: with a non-empty loaded table no run stops on an unhandled
\* error; the Search view, for a symbol that has rows, shows the highs table,
\* the chart and then the stock card; the other views, when the filtered set
\* is not empty, show one card for each symbol of the filtered set
C10_RunRendersWithoutError ==
    (pc = "done" /\ ~IsEmpty(cache)) =>
        /\ out.raised = "none"
        /\ (arg.view = "Search" /\ RowsOf(cache, Str(Upper(Strip(arg.text)))) # {})
              => \E i, j, l \in 1..Len(out.shown) :
                    /\ i < j /\ j < l
                    /\ out.shown[i] = "highs_table"
                    /\ out.shown[j] = "chart"
                    /\ out.shown[l] = "stock_card"
        /\ (/\ arg.view # "Search"
            /\ (arg.view = "Date Range" => ~DateLess(arg.d2, arg.d1))
            /\ ~IsEmpty(Selected(arg)))
              => Times(out.shown, "stock_card")
                   = Cardinality({Selected(arg).rows[i]["Symbol"] :
                                     i \in 1..Len(Selected(arg).rows)})

====
